---------------------------- MODULE Spec2Model ----------------------------
(***************************************************************************)
(* Model of src/src/Lab_2_4_LR2.py: the LinearRegressor class (fit,        *)
(* fit_multiple, fit_gradient_descent, predict), evaluate_regression and   *)
(* one_hot_encode.                                                         *)
(*                                                                         *)
(* Numbers.  Feature and target data are small integers.  Model           *)
(* parameters, predictions and metrics are floats in the program; here     *)
(* they are fixed-point integers in units of 1/Scale, every division       *)
(* rounding down.  Python's None is the empty tuple, a present value v is  *)
(* the one-element tuple <<v>>.                                            *)
(*                                                                         *)
(* Arrays.  A numpy array is a record [ndim, ncols, rows]: rows is the     *)
(* sequence of elements (ndim = 1) or of rows (ndim = 2); ncols keeps the  *)
(* second dimension of the shape, which an array without rows still has.   *)
(***************************************************************************)
EXTENDS Integers, Sequences, FiniteSets

VARIABLES
    coefficients,   \* self.coefficients: None or <<vector>>
    intercept,      \* self.intercept: None or <<scalar>>
    pc,             \* "idle", or "gd" inside the loop of fit_gradient_descent
    op,             \* the last call made on the regressor: "none", "fit", "predict"
    X,              \* argument X of the last call
    y,              \* argument y of the last fit call
    method,         \* argument method of the last fit call
    learning_rate,  \* argument learning_rate of the last fit call ([num, den])
    iterations,     \* argument iterations of the last fit call
    epoch,          \* loop variable of fit_gradient_descent
    log,            \* lines printed by the last fit call: <<[epoch, mse], ...>>
    ret,            \* outcome of the last call: returned value or raised exception
    fitCalled,      \* history: some fit call has been made on the instance
    fitSucceeded,   \* history: some fit call has returned without raising
    encX,           \* one_hot_encode: argument X (sequence of rows)
    encIdx,         \* one_hot_encode: argument categorical_indices (sequence)
    encDrop,        \* one_hot_encode: argument drop_first
    encOut,         \* one_hot_encode: None, or <<outcome>>
    y_true,         \* evaluate_regression: argument y_true
    y_pred,         \* evaluate_regression: argument y_pred
    evalOut         \* evaluate_regression: None, or <<outcome>>

regVars == <<coefficients, intercept, pc, op, X, y, method, learning_rate,
             iterations, epoch, log, ret, fitCalled, fitSucceeded>>
encVars == <<encX, encIdx, encDrop, encOut>>
evalVars == <<y_true, y_pred, evalOut>>
vars == <<regVars, encVars, evalVars>>

---------------------------------------------------------------------------
(* Values                                                                  *)

None == <<>>
Some(v) == <<v>>
IsNone(o) == o = <<>>
Get(o) == o[1]

\* Resolution of the fixed-point stand-in for float64: 0.001.
Scale == 1000

\* A float result that may be nan or infinite
Finite(v) == [kind |-> "finite", v |-> v]
NaN == [kind |-> "nan", v |-> 0]
MinusInf == [kind |-> "-inf", v |-> 0]

Returned(v) == [status |-> "ok", exc |-> "", msg |-> "", value |-> v]
Raised(e, m) == [status |-> "raise", exc |-> e, msg |-> m, value |-> <<>>]

Arr1(elems) == [ndim |-> 1, ncols |-> 0, rows |-> elems]
Arr2(rs, nc) == [ndim |-> 2, ncols |-> nc, rows |-> rs]

---------------------------------------------------------------------------
(* Vector and matrix arithmetic (numpy)                                    *)

RECURSIVE SumSeq(_)
SumSeq(s) == IF s = <<>> THEN 0 ELSE Head(s) + SumSeq(Tail(s))

Dot(a, b) == SumSeq([i \in 1..Len(a) |-> a[i] * b[i]])

\* np.transpose of an n x nc matrix given as its rows
Transpose(rs, nc) == [j \in 1..nc |-> [i \in 1..Len(rs) |-> rs[i][j]]]

\* A @ B for matrices given as rows; B has nc columns
MatMul(A, B, nc) == [i \in 1..Len(A) |-> [j \in 1..nc |-> Dot(A[i], [k \in 1..Len(B) |-> B[k][j]])]]

\* A @ v for a matrix and a vector
MatVec(A, v) == [i \in 1..Len(A) |-> Dot(A[i], v)]

DropAt(s, k) == [i \in 1..(Len(s) - 1) |-> IF i < k THEN s[i] ELSE s[i + 1]]

Minor(A, i, j) == [r \in 1..(Len(A) - 1) |-> DropAt(DropAt(A, i)[r], j)]

RECURSIVE Det(_)
Det(A) ==
    IF Len(A) = 0 THEN 1
    ELSE SumSeq([j \in 1..Len(A) |->
            (IF j % 2 = 1 THEN 1 ELSE -1) * A[1][j] * Det(Minor(A, 1, j))])

\* adjugate: inv(A) = Adjugate(A) / Det(A)
Adjugate(A) ==
    [i \in 1..Len(A) |-> [j \in 1..Len(A) |->
        (IF (i + j) % 2 = 0 THEN 1 ELSE -1) * Det(Minor(A, j, i))]]

\* numpy broadcasting of two 1-D operands
Broadcastable(a, b) == Len(a) = Len(b) \/ Len(a) = 1 \/ Len(b) = 1
BroadcastLen(a, b) == IF Len(a) = Len(b) THEN Len(a) ELSE IF Len(a) = 1 THEN Len(b) ELSE Len(a)
Elem(a, i) == IF Len(a) = 1 THEN a[1] ELSE a[i]


---------------------------------------------------------------------------
(* LinearRegressor                                                         *)

\* Mutant of MethodAvailable: the method is never validated
MethodAvailable_unchecked(m) == TRUE

\* fit, line 37: the methods fit accepts
MethodAvailable(m) == m \in {"least_squares", "gradient_descent"}

\* fit, lines 41-42: a 1-D X becomes a single feature column
Reshape(A) ==
    IF A.ndim = 1 THEN Arr2([i \in 1..Len(A.rows) |-> <<A.rows[i]>>], 1) ELSE A

\* fit, lines 44-46: np.insert(X, 0, 1, axis=1)
InsertBias(A) == Arr2([i \in 1..Len(A.rows) |-> <<1>> \o A.rows[i]], A.ncols + 1)

\* X[:, 1:]
DropFirstColumn(A) == Arr2([i \in 1..Len(A.rows) |-> Tail(A.rows[i])], A.ncols - 1)

\* Mutant of SeparateBeta: only the intercept is stored
SeparateBeta_interceptOnly(beta) == [intercept |-> Some(Head(beta)), coefficients |-> None]

\* fit_multiple, lines 74-75: beta[0] is the intercept, beta[1:] the coefficients
SeparateBeta(beta) == [intercept |-> Some(Head(beta)), coefficients |-> Some(Tail(beta))]

\* What np.linalg.inv may hand back for a singular matrix whose LU factors round
\* to a nonzero pivot: entries of huge magnitude and either sign.
GarbageValues == {0 - 4096 * Scale, 4096 * Scale}

\* fit_multiple, lines 69-71: the outcomes of
\* beta = np.linalg.inv(X.T @ X) @ X.T @ y, each [raised, exc, beta].
\* A singular X.T @ X either raises LinAlgError (an exact zero pivot) or yields
\* garbage (a pivot that rounding left nonzero); the product with y then needs
\* len(y) = number of rows.
NormalEquation(Xb, yv) ==
    LET X_transpose == Transpose(Xb.rows, Xb.ncols)
        gram == MatMul(X_transpose, Xb.rows, Xb.ncols)
        d == Det(gram)
        mismatch == Len(yv) # Len(Xb.rows)
        shapeError == [raised |-> TRUE,
                       exc |-> Raised("ValueError", "matmul: shapes not aligned"),
                       beta |-> <<>>]
    IN  IF d = 0
        THEN {[raised |-> TRUE, exc |-> Raised("LinAlgError", "Singular matrix"), beta |-> <<>>]}
             \cup (IF mismatch THEN {shapeError}
                   ELSE {[raised |-> FALSE, exc |-> Returned(<<>>), beta |-> g] :
                            g \in [1..Xb.ncols -> GarbageValues]})
        ELSE IF mismatch THEN {shapeError}
        ELSE LET num == MatVec(MatMul(Adjugate(gram), X_transpose, Len(Xb.rows)), yv)
             IN  {[raised |-> FALSE, exc |-> Returned(<<>>),
                   beta |-> [i \in 1..Xb.ncols |-> (num[i] * Scale) \div d]]}

\* predict, lines 127-133, on the parameters (ic, cf): the returned value or the
\* exception raised
predict(ic, cf, A) ==
    IF IsNone(cf) \/ IsNone(ic)
    THEN Raised("ValueError", "Model is not yet fitted")
    ELSE IF A.ndim = 1
    THEN IF Broadcastable(Get(cf), A.rows)
         THEN Returned([i \in 1..BroadcastLen(Get(cf), A.rows) |->
                          Get(ic) + Elem(Get(cf), i) * Elem(A.rows, i)])
         ELSE Raised("ValueError", "operands could not be broadcast together")
    ELSE IF A.ncols = Len(Get(cf))
         THEN Returned([i \in 1..Len(A.rows) |-> Get(ic) + Dot(A.rows[i], Get(cf))])
         ELSE Raised("ValueError", "dot: shapes not aligned")

\* fit_gradient_descent, line 98: predictions - y (y holds raw data, predictions
\* are fixed-point)
ErrorVector(predictions, yv) ==
    [i \in 1..BroadcastLen(predictions, yv) |-> Elem(predictions, i) - Elem(yv, i) * Scale]

\* line 101: (2 / n) * np.sum(error)
GradientIntercept(error, n) == (2 * SumSeq(error)) \div n

\* line 102: (2 / n) * np.dot(X[:, 1:].T, error)
GradientCoefficients(F, error, n) ==
    [j \in 1..F.ncols |-> (2 * Dot([i \in 1..Len(F.rows) |-> F.rows[i][j]], error)) \div n]

\* learning_rate * g
Times(lr, g) == (lr.num * g) \div lr.den

\* line 109: np.mean(error ** 2); the mean of an empty array is nan
MeanSquare(error) ==
    IF Len(error) = 0 THEN NaN
    ELSE Finite(SumSeq([i \in 1..Len(error) |-> error[i] * error[i]]) \div (Len(error) * Scale))

\* line 108: the epochs that print
PrintEvery == 100
Prints(e) == e % PrintEvery = 0

\* Mutant of Epoch: the intercept is updated first and the coefficient gradient
\* is computed from the error of the updated intercept
Epoch_sequential(ic, cf, Xb, yv, lr) ==
    LET n == Len(yv)
        F == DropFirstColumn(Xb)
        predictions == predict(ic, cf, F).value
        error == ErrorVector(predictions, yv)
        newIntercept == Some(Get(ic) - Times(lr, GradientIntercept(error, n)))
        error2 == ErrorVector(predict(newIntercept, cf, F).value, yv)
        gradient_coefficients == GradientCoefficients(F, error2, n)
        fail(e, m) == [raised |-> TRUE, exc |-> Raised(e, m), intercept |-> ic,
                       coefficients |-> cf, mse |-> NaN]
    IN  IF ~Broadcastable(predictions, yv)
        THEN fail("ValueError", "operands could not be broadcast together")
        ELSE IF n = 0
        THEN fail("ZeroDivisionError", "division by zero")
        ELSE IF Len(error) # Len(F.rows)
        THEN fail("ValueError", "dot: shapes not aligned")
        ELSE [raised |-> FALSE, exc |-> Returned(<<>>),
              intercept |-> newIntercept,
              coefficients |-> Some([j \in 1..F.ncols |->
                                  Get(cf)[j] - Times(lr, gradient_coefficients[j])]),
              mse |-> MeanSquare(error)]

\* fit_gradient_descent, lines 97-110: one pass of the loop body from the
\* parameters (ic, cf): the exception it raises, or the updated parameters and
\* the mean squared error of the pass
Epoch(ic, cf, Xb, yv, lr) ==
    LET n == Len(yv)
        F == DropFirstColumn(Xb)
        predictions == predict(ic, cf, F).value
        error == ErrorVector(predictions, yv)
        gradient_intercept == GradientIntercept(error, n)
        gradient_coefficients == GradientCoefficients(F, error, n)
        fail(e, m) == [raised |-> TRUE, exc |-> Raised(e, m), intercept |-> ic,
                       coefficients |-> cf, mse |-> NaN]
    IN  IF ~Broadcastable(predictions, yv)
        THEN fail("ValueError", "operands could not be broadcast together")
        ELSE IF n = 0
        THEN fail("ZeroDivisionError", "division by zero")
        ELSE IF Len(error) # Len(F.rows)
        THEN fail("ValueError", "dot: shapes not aligned")
        ELSE [raised |-> FALSE, exc |-> Returned(<<>>),
              intercept |-> Some(Get(ic) - Times(lr, gradient_intercept)),
              coefficients |-> Some([j \in 1..F.ncols |->
                                  Get(cf)[j] - Times(lr, gradient_coefficients[j])]),
              mse |-> MeanSquare(error)]

---------------------------------------------------------------------------
(* Inputs of the regressor's calls                                         *)

\* Largest iteration count fit is called with
MaxIterations == 201

\* fit, line 22: the defaults of learning_rate and iterations
DefaultLearningRate == [num |-> 1, den |-> 100]
DefaultIterations == 1000

\* x = 0, 1, 2 as a 1-D array (y = 1 + 2x fits <<1, 3, 5>> exactly)
X_line == Arr1(<<0, 1, 2>>)
\* three rows, two independent features
X_plane == Arr2(<<<<0, 1>>, <<1, 0>>, <<1, 1>>>>, 2)
\* a single row: a singular design matrix (fewer rows than columns), and one
\* that broadcasts against any y
X_row == Arr2(<<<<2>>>>, 1)
\* no rows
X_empty == Arr2(<<>>, 1)

\* The arguments fit is called with: [Xs, ys, methods, rates, counts]
CallInputs ==
    [Xs |-> {X_line, X_plane, X_row},
     ys |-> {<<>>, <<2>>, <<1, 3, 5>>},
     methods |-> {"least_squares", "gradient_descent", "bogus"},
     rates |-> {[num |-> 1, den |-> 10]},
     counts |-> {0, 2}]

\* The arguments of the long training runs
TrainingInputs ==
    [Xs |-> {X_line, X_plane},
     ys |-> {<<>>, <<2>>, <<1, 3, 5>>},
     methods |-> {"gradient_descent"},
     rates |-> {DefaultLearningRate, [num |-> 1, den |-> 10]},
     counts |-> {0, 1, PrintEvery, PrintEvery + 1, MaxIterations}]

PredictXs == {X_line, X_plane, X_empty}

\* fit_gradient_descent, lines 92-93: np.random.rand() * 0.01 lies in [0, 0.01);
\* the smallest and the largest fixed-point value of that interval
RandomInits == {0, (Scale \div 100) - 1}

Running == [status |-> "running", exc |-> "", msg |-> "", value |-> <<>>]

---------------------------------------------------------------------------
(* Actions of the regressor.  The interpreter is single-threaded: while    *)
(* fit_gradient_descent is in its loop (pc = "gd") no other call starts.   *)

\* fit_multiple, lines 69-75
fit_multiple(Xb, yv) ==
    \E o \in NormalEquation(Xb, yv) :
        /\ ret' = o.exc
        /\ IF o.raised
           THEN UNCHANGED <<intercept, coefficients, fitSucceeded>>
           ELSE /\ intercept' = SeparateBeta(o.beta).intercept
                /\ coefficients' = SeparateBeta(o.beta).coefficients
                /\ fitSucceeded' = TRUE
        /\ pc' = "idle"
        /\ epoch' = 0

\* fit_gradient_descent, lines 91-93: the parameters are drawn before the loop
fit_gradient_descent(Xb, yv) ==
    /\ coefficients' \in {Some(c) : c \in [1..(Xb.ncols - 1) -> RandomInits]}
    /\ intercept' \in {Some(r) : r \in RandomInits}
    /\ pc' = "gd"
    /\ epoch' = 0
    /\ ret' = Running
    /\ UNCHANGED fitSucceeded

\* fit, lines 22-51
fit(inputs) ==
    /\ pc = "idle"
    /\ \E Xin \in inputs.Xs, yin \in inputs.ys, m \in inputs.methods :
       \E lr \in (IF m = "gradient_descent" THEN inputs.rates ELSE {DefaultLearningRate}),
          its \in (IF m = "gradient_descent" THEN inputs.counts ELSE {DefaultIterations}) :
        /\ op' = "fit"
        /\ X' = Xin
        /\ y' = yin
        /\ method' = m
        /\ learning_rate' = lr
        /\ iterations' = its
        /\ fitCalled' = TRUE
        /\ log' = <<>>
        /\ IF ~MethodAvailable(m)
           THEN /\ ret' = Raised("ValueError", "Method not available for training linear regression.")
                /\ pc' = "idle"
                /\ epoch' = 0
                /\ UNCHANGED <<intercept, coefficients, fitSucceeded>>
           ELSE IF m = "least_squares"
           THEN fit_multiple(InsertBias(Reshape(Xin)), yin)
           ELSE IF m = "gradient_descent"
           THEN fit_gradient_descent(InsertBias(Reshape(Xin)), yin)
           ELSE /\ ret' = Returned(<<>>)
                /\ pc' = "idle"
                /\ epoch' = 0
                /\ fitSucceeded' = TRUE
                /\ UNCHANGED <<intercept, coefficients>>
    /\ UNCHANGED <<encVars, evalVars>>

\* fit_gradient_descent, lines 96-110: one pass of the loop; epoch counts the
\* passes completed, which is the index range(iterations) hands out next
gd_epoch ==
    /\ pc = "gd"
    /\ epoch < iterations
    /\ LET r == Epoch(intercept, coefficients, InsertBias(Reshape(X)), y, learning_rate)
       IN  IF r.raised
           THEN /\ pc' = "idle"
                /\ ret' = r.exc
                /\ UNCHANGED <<intercept, coefficients, epoch, log>>
           ELSE /\ intercept' = r.intercept
                /\ coefficients' = r.coefficients
                /\ epoch' = epoch + 1
                /\ log' = IF Prints(epoch)
                          THEN Append(log, [epoch |-> epoch, mse |-> r.mse])
                          ELSE log
                /\ UNCHANGED <<pc, ret>>
    /\ UNCHANGED <<op, X, y, method, learning_rate, iterations, fitCalled, fitSucceeded>>
    /\ UNCHANGED <<encVars, evalVars>>

\* fit_gradient_descent: range(iterations) is exhausted, fit returns None
gd_return ==
    /\ pc = "gd"
    /\ epoch = iterations
    /\ pc' = "idle"
    /\ ret' = Returned(<<>>)
    /\ fitSucceeded' = TRUE
    /\ UNCHANGED <<coefficients, intercept, op, X, y, method, learning_rate,
                   iterations, epoch, log, fitCalled>>
    /\ UNCHANGED <<encVars, evalVars>>

\* predict, lines 112-133, called from outside
Predict ==
    /\ pc = "idle"
    /\ \E Xin \in PredictXs :
        /\ op' = "predict"
        /\ X' = Xin
        /\ ret' = predict(intercept, coefficients, Xin)
    /\ UNCHANGED <<coefficients, intercept, pc, y, method, learning_rate,
                   iterations, epoch, log, fitCalled, fitSucceeded>>
    /\ UNCHANGED <<encVars, evalVars>>

\* Mutant of InitRegressor: the parameters start as zeros instead of None
InitRegressor_zeros ==
    /\ coefficients = Some(<<0>>)
    /\ intercept = Some(0)
    /\ pc = "idle"
    /\ op = "none"
    /\ X = X_empty
    /\ y = <<>>
    /\ method = ""
    /\ learning_rate = DefaultLearningRate
    /\ iterations = 0
    /\ epoch = 0
    /\ log = <<>>
    /\ ret = Returned(<<>>)
    /\ fitCalled = FALSE
    /\ fitSucceeded = FALSE

\* __init__, lines 13-15
InitRegressor ==
    /\ coefficients = None
    /\ intercept = None
    /\ pc = "idle"
    /\ op = "none"
    /\ X = X_empty
    /\ y = <<>>
    /\ method = ""
    /\ learning_rate = DefaultLearningRate
    /\ iterations = 0
    /\ epoch = 0
    /\ log = <<>>
    /\ ret = Returned(<<>>)
    /\ fitCalled = FALSE
    /\ fitSucceeded = FALSE

InitEncoderIdle ==
    /\ encX = <<>>
    /\ encIdx = <<>>
    /\ encDrop = FALSE
    /\ encOut = None

InitEvaluatorIdle ==
    /\ y_true = <<>>
    /\ y_pred = <<>>
    /\ evalOut = None

Init == InitRegressor /\ InitEncoderIdle /\ InitEvaluatorIdle

\* Calls on one regressor, in any order, with short gradient descents
Next == fit(CallInputs) \/ gd_epoch \/ gd_return \/ Predict

Spec == Init /\ [][Next]_vars

\* Gradient-descent fits with long loops
NextTraining == fit(TrainingInputs) \/ gd_epoch \/ gd_return

SpecTraining == Init /\ [][NextTraining]_vars

---------------------------------------------------------------------------
(* evaluate_regression                                                     *)

\* floor of the square root of v >= 0, by bisection on [lo, hi)
RECURSIVE Bisect(_, _, _)
Bisect(v, lo, hi) ==
    IF hi - lo <= 1 THEN lo
    ELSE LET mid == (lo + hi) \div 2
         IN  IF mid * mid <= v THEN Bisect(v, mid, hi) ELSE Bisect(v, lo, mid)

\* np.sqrt of a fixed-point value (the root stays below 2^15.5, the largest
\* whose square a 32-bit integer holds)
Sqrt(v) == Bisect(v * Scale, 0, IF v * Scale < 46340 THEN v * Scale + 1 ELSE 46340)

Abs(v) == IF v < 0 THEN 0 - v ELSE v

\* evaluate_regression, lines 148-161: the record returned or the exception
\* raised.  y_true - y_pred broadcasts (line 150); the total sum of squares is
\* kept exact as tssTimesN / n; a zero tss makes R2 nan or -inf (numpy divides
\* with a warning); 1/n raises for n = 0 (line 155).
evaluate_regression(yt, yp) ==
    LET n == Len(yt)
        diff == [i \in 1..BroadcastLen(yt, yp) |-> Elem(yt, i) - Elem(yp, i)]
        rss == SumSeq([i \in 1..Len(diff) |-> diff[i] * diff[i]])
        tssTimesN == n * SumSeq([i \in 1..n |-> yt[i] * yt[i]]) - SumSeq(yt) * SumSeq(yt)
        r_squared == IF tssTimesN = 0
                     THEN (IF rss = 0 THEN NaN ELSE MinusInf)
                     ELSE Finite(Scale - (rss * n * Scale) \div tssTimesN)
        mse == (rss * Scale) \div n
        rmse == Sqrt(mse)
        mae == (SumSeq([i \in 1..Len(diff) |-> Abs(diff[i])]) * Scale) \div n
    IN  IF ~Broadcastable(yt, yp)
        THEN Raised("ValueError", "operands could not be broadcast together")
        ELSE IF n = 0
        THEN Raised("ZeroDivisionError", "division by zero")
        ELSE Returned([R2 |-> r_squared, RMSE |-> Finite(rmse), MAE |-> Finite(mae)])

\* Longest sequence evaluate_regression is called with
MaxLen == 3

YValues == {0, 1, 3}

Vectors == UNION {[1..k -> YValues] : k \in 0..MaxLen}

Evaluate ==
    /\ IsNone(evalOut)
    /\ evalOut' = Some(evaluate_regression(y_true, y_pred))
    /\ UNCHANGED <<y_true, y_pred, regVars, encVars>>

InitEvaluator ==
    /\ y_true \in Vectors
    /\ y_pred \in Vectors
    /\ evalOut = None
    /\ InitRegressor
    /\ InitEncoderIdle

NextEvaluator == Evaluate

\* evaluate_regression applied to every pair of input sequences
SpecEvaluator == InitEvaluator /\ [][NextEvaluator]_vars

---------------------------------------------------------------------------
(* one_hot_encode.  A table is the sequence of its rows, with at least one *)
(* row; category labels are integers, ordered as np.unique orders them.    *)

Min(a, b) == IF a < b THEN a ELSE b
Max(a, b) == IF a > b THEN a ELSE b

RECURSIVE InsertDescending(_, _)
InsertDescending(v, s) ==
    IF s = <<>> THEN <<v>>
    ELSE IF v >= Head(s) THEN <<v>> \o s
    ELSE <<Head(s)>> \o InsertDescending(v, Tail(s))

RECURSIVE SortDescending(_)
SortDescending(s) ==
    IF s = <<>> THEN <<>> ELSE InsertDescending(Head(s), SortDescending(Tail(s)))

\* Mutant of ProcessingOrder: the indices are processed as given
ProcessingOrder_asGiven(indices) == indices

\* line 181: sorted(categorical_indices, reverse=True)
ProcessingOrder(indices) == SortDescending(indices)

\* line 183: np.unique(column), the distinct values in ascending order
RECURSIVE Ascending(_)
Ascending(S) ==
    IF S = {} THEN <<>>
    ELSE LET least == CHOOSE v \in S : \A w \in S : v <= w
         IN  <<least>> \o Ascending(S \ {least})

Unique(column) == Ascending({column[i] : i \in 1..Len(column)})

\* Mutant of Levels: drop_first is ignored
Levels_keepAll(unique_values, drop_first) == unique_values

\* lines 185-186: unique_values[1:] under drop_first
Levels(unique_values, drop_first) == IF drop_first THEN Tail(unique_values) ELSE unique_values

\* line 188: one row of indicators per element of the column
OneHots(column, unique_values) ==
    [r \in 1..Len(column) |->
        [j \in 1..Len(unique_values) |-> IF column[r] = unique_values[j] THEN 1 ELSE 0]]

\* Mutant of Splice: the indicator columns are appended after the other columns
Splice_append(deleted, one_hots, index) ==
    [r \in 1..Len(deleted) |-> deleted[r] \o one_hots[r]]

\* line 191: np.hstack((X[:, :index], one_hots, X[:, index:])) on the table with
\* the column deleted; the slices follow Python's rules for a negative index
Splice(deleted, one_hots, index) ==
    LET w == Len(deleted[1])
        cut == IF index >= 0 THEN Min(index, w) ELSE Max(0, w + index)
    IN  [r \in 1..Len(deleted) |->
            SubSeq(deleted[r], 1, cut) \o one_hots[r] \o SubSeq(deleted[r], cut + 1, w)]

\* lines 182-191: the loop body for one index: the table after it, or the
\* IndexError of X_transformed[:, index].  numpy takes -ncols <= index < ncols,
\* a negative index counting from the last column.
EncodeColumn(table, index, drop_first) ==
    LET ncols == Len(table[1])
        c == IF index >= 0 THEN index + 1 ELSE ncols + index + 1
        categorical_column == [r \in 1..Len(table) |-> table[r][c]]
        unique_values == Levels(Unique(categorical_column), drop_first)
        one_hots == OneHots(categorical_column, unique_values)
        deleted == [r \in 1..Len(table) |-> DropAt(table[r], c)]
    IN  IF index >= ncols \/ index < 0 - ncols
        THEN Raised("IndexError", "index is out of bounds for axis 1")
        ELSE Returned(Splice(deleted, one_hots, index))

\* lines 181-193: the loop over the indices in processing order
RECURSIVE EncodeAll(_, _, _)
EncodeAll(table, order, drop_first) ==
    IF order = <<>> THEN Returned(table)
    ELSE LET step == EncodeColumn(table, Head(order), drop_first)
         IN  IF step.status = "raise" THEN step
             ELSE EncodeAll(step.value, Tail(order), drop_first)

\* one_hot_encode, lines 166-193
one_hot_encode(table, categorical_indices, drop_first) ==
    EncodeAll(table, ProcessingOrder(categorical_indices), drop_first)

\* Most rows and most columns of an input table
MaxRows == 3
MaxCols == 3

\* The columns tables are built from: one category; two categories, the larger
\* first; one category per row, in falling order
ColumnKinds == {"const", "pair", "falling"}
Cell(kind, r) ==
    IF kind = "const" THEN 7
    ELSE IF kind = "pair" THEN (IF r % 2 = 1 THEN 5 ELSE 3)
    ELSE 20 - r

Tables ==
    {[r \in 1..n |-> [c \in 1..Len(kinds) |-> Cell(kinds[c], r)]] :
        n \in 1..MaxRows, kinds \in UNION {[1..k -> ColumnKinds] : k \in 1..MaxCols}}

\* categorical_indices: none, one or two indices, in range or not, in any order
IndexLists == UNION {[1..k -> (0 - MaxCols)..MaxCols] : k \in {0, 1, 2}}

Encode ==
    /\ IsNone(encOut)
    /\ encOut' = Some(one_hot_encode(encX, encIdx, encDrop))
    /\ UNCHANGED <<encX, encIdx, encDrop, regVars, evalVars>>

InitEncoder ==
    /\ encX \in Tables
    /\ encIdx \in IndexLists
    /\ encDrop \in BOOLEAN
    /\ encOut = None
    /\ InitRegressor
    /\ InitEvaluatorIdle

NextEncoder == Encode

\* one_hot_encode applied to every table, index list and drop_first
SpecEncoder == InitEncoder /\ [][NextEncoder]_vars

---------------------------------------------------------------------------
(* Properties of the regressor                                             *)

NotFittedError == Raised("ValueError", "Model is not yet fitted")

\* C1: in every state of the regressor, fitted or not, a fit call whose method
\* is neither "least_squares" nor "gradient_descent" raises the ValueError of
\* the method check, whatever its other arguments, before anything is computed
\* or printed, and leaves intercept and coefficients exactly as they were.
C1_InvalidMethodRejected ==
    [][(op' = "fit" /\ method' \notin {"least_squares", "gradient_descent"}) =>
          /\ ret'.status = "raise"
          /\ ret'.exc = "ValueError"
          /\ ret'.msg = "Method not available for training linear regression."
          /\ pc' = "idle"
          /\ log' = <<>>
          /\ intercept' = intercept
          /\ coefficients' = coefficients]_vars

\* A fitted regressor has just rejected a fit call with an unknown method.
C1_Witness ==
    /\ op = "fit"
    /\ method = "bogus"
    /\ ret.exc = "ValueError"
    /\ fitSucceeded
    /\ ~IsNone(coefficients)
    /\ ~IsNone(intercept)

\* C2: predict on a regressor on which fit was never called raises the
\* not-fitted ValueError for every input, 1-D or 2-D, and returns no
\* predictions.
C2_PredictBeforeFit ==
    (op = "predict" /\ ~fitCalled) => (ret = NotFittedError /\ ret.value = <<>>)

\* predict has been called with a 2-D input on a fresh regressor.
C2_Witness ==
    /\ op = "predict"
    /\ ~fitCalled
    /\ X = X_plane
    /\ ret.status = "raise"

\* C3: the model state is never partially populated: intercept is None exactly
\* when coefficients is None, after any sequence of fit calls (either method,
\* returning or raising) and predict calls, and inside a running fit.
C3_NeverPartial == IsNone(intercept) <=> IsNone(coefficients)

\* A least-squares fit has returned and set both fields; an earlier state of the
\* same instance had neither.
C3_Witness ==
    /\ op = "fit"
    /\ method = "least_squares"
    /\ ret.status = "ok"
    /\ ~IsNone(intercept)
    /\ ~IsNone(coefficients)

\* C4 (as claimed): predict raises the not-fitted error whenever no fit call on
\* the instance has returned without raising.
C4_NotFittedUntilFitSucceeds ==
    (op = "predict" /\ ~fitSucceeded) => ret = NotFittedError

\* The arguments of the running or last fit call are well-formed for gradient
\* descent: one target per row, at least one row.
WellFormedFit == Len(y) = Len(Reshape(X).rows) /\ Len(y) > 0

\* The pass of gradient descent from the current parameters, as the claim states
\* it: both gradients from the one error vector of the parameters at the start
\* of the pass.
C10_Pass ==
    LET F == Reshape(X).rows
        n == Len(y)
        err == [i \in 1..n |-> Get(intercept) + Dot(F[i], Get(coefficients)) - y[i] * Scale]
        gi == (2 * SumSeq(err)) \div n
        gc == [j \in 1..Len(Get(coefficients)) |->
                  (2 * SumSeq([i \in 1..n |-> F[i][j] * err[i]])) \div n]
    IN  [intercept |-> Some(Get(intercept) - (learning_rate.num * gi) \div learning_rate.den),
         coefficients |-> Some([j \in 1..Len(Get(coefficients)) |->
              Get(coefficients)[j] - (learning_rate.num * gc[j]) \div learning_rate.den]),
         mse |-> Finite(SumSeq([i \in 1..n |-> err[i] * err[i]]) \div (n * Scale))]

\* C10: a gradient_descent fit with well-formed X, y and iterations = N performs
\* exactly N passes and then returns, with no early exit (every step of the
\* loop is a pass that raises the pass count by one while it is below N, and
\* the return once it is N); each pass updates
\* intercept and coefficients from gradients of the same error vector; the mean
\* squared error is printed exactly at the passes 0, 100, 200, ... below N, in
\* increasing order.
C10_GradientDescentRuns ==
    /\ [](  (op = "fit" /\ method = "gradient_descent" /\ WellFormedFit) =>
              /\ epoch <= iterations
              /\ ret.status # "raise"
              /\ (pc = "idle" => (epoch = iterations /\ ret = Returned(<<>>)))
              /\ Len(log) = (epoch + 99) \div 100
              /\ \A i \in 1..Len(log) : log[i].epoch = (i - 1) * 100 )
    /\ [][ (pc = "gd" /\ WellFormedFit) =>
              \/ /\ epoch < iterations
                 /\ pc' = "gd"
                 /\ epoch' = epoch + 1
                 /\ intercept' = C10_Pass.intercept
                 /\ coefficients' = C10_Pass.coefficients
                 /\ log' = IF epoch % 100 = 0
                           THEN Append(log, [epoch |-> epoch, mse |-> C10_Pass.mse])
                           ELSE log
              \/ /\ epoch = iterations
                 /\ pc' = "idle"
                 /\ UNCHANGED <<intercept, coefficients, epoch, log>> ]_vars

\* The longest fit has returned after all its passes, having printed at passes
\* 0, 100 and 200.
C10_Witness ==
    /\ op = "fit"
    /\ method = "gradient_descent"
    /\ WellFormedFit
    /\ pc = "idle"
    /\ iterations = MaxIterations
    /\ epoch = iterations
    /\ Len(log) = 3
    /\ log[3].epoch = 200

---------------------------------------------------------------------------
(* Properties of one_hot_encode and evaluate_regression                    *)

EncCols == Len(encX[1])
EncResult == Get(encOut)

\* categorical_indices is a set of valid 0-based column indices
ValidIndexSet ==
    /\ \A i \in 1..Len(encIdx) : encIdx[i] \in 0..(EncCols - 1)
    /\ \A i, j \in 1..Len(encIdx) : i # j => encIdx[i] # encIdx[j]

\* column c (0-based) of the input is designated categorical
Categorical(c) == \E i \in 1..Len(encIdx) : encIdx[i] = c

\* the unique values of input column c
Categories(c) == {encX[r][c + 1] : r \in 1..Len(encX)}

\* the number of result columns that stand for input column c, and the number
\* of result columns to the left of them
WidthOf(c) ==
    IF Categorical(c)
    THEN (IF encDrop THEN Cardinality(Categories(c)) - 1 ELSE Cardinality(Categories(c)))
    ELSE 1
StartOf(c) == SumSeq([d \in 1..c |-> WidthOf(d - 1)])

\* the category of the j-th indicator column of input column c
LevelOf(c, j) ==
    CHOOSE v \in Categories(c) :
        Cardinality({u \in Categories(c) : u < v}) = (IF encDrop THEN j ELSE j - 1)

\* C5: a categorical column with k unique values is replaced by exactly k
\* indicator columns whose entries sum to 1 in every row; under drop_first by
\* exactly k - 1 columns whose entries sum to 0 in the rows holding the smallest
\* category and to 1 in the others (so by no column at all when k = 1).
C5_IndicatorCardinality ==
    (~IsNone(encOut) /\ ValidIndexSet) =>
        /\ EncResult.status = "ok"
        /\ \A r \in 1..Len(encX) :
            /\ Len(EncResult.value) = Len(encX)
            /\ Len(EncResult.value[r]) = StartOf(EncCols)
            /\ \A c \in 0..(EncCols - 1) : Categorical(c) =>
                LET block == SubSeq(EncResult.value[r], StartOf(c) + 1, StartOf(c) + WidthOf(c))
                    smallest == \A u \in Categories(c) : encX[r][c + 1] <= u
                IN  /\ Len(block) = Cardinality(Categories(c)) - (IF encDrop THEN 1 ELSE 0)
                    /\ \A j \in 1..Len(block) : block[j] \in {0, 1}
                    /\ SumSeq(block) = IF encDrop /\ smallest THEN 0 ELSE 1

\* drop_first on a column with a single category: the column has left the
\* table and nothing has replaced it.
C5_Witness ==
    /\ ~IsNone(encOut)
    /\ ValidIndexSet
    /\ encDrop
    /\ Len(encIdx) = 1
    /\ Cardinality(Categories(encIdx[1])) = 1
    /\ EncCols = 3
    /\ Len(EncResult.value[1]) = 2

\* C6: for any set of valid categorical indices, every other column keeps its
\* cell values and its place relative to the other columns, and the indicator
\* columns of a categorical column, in ascending order of category, stand
\* exactly where that column stood.
C6_ColumnOrder ==
    (~IsNone(encOut) /\ ValidIndexSet) =>
        /\ EncResult.status = "ok"
        /\ \A r \in 1..Len(encX) :
            /\ Len(EncResult.value[r]) = StartOf(EncCols)
            /\ \A c \in 0..(EncCols - 1) :
                IF Categorical(c)
                THEN \A j \in 1..WidthOf(c) :
                        EncResult.value[r][StartOf(c) + j] =
                            (IF encX[r][c + 1] = LevelOf(c, j) THEN 1 ELSE 0)
                ELSE EncResult.value[r][StartOf(c) + 1] = encX[r][c + 1]

\* The middle column of a three-column table, with three categories, has been
\* encoded in place.
C6_Witness ==
    /\ ~IsNone(encOut)
    /\ encIdx = <<1>>
    /\ ~encDrop
    /\ EncCols = 3
    /\ Cardinality(Categories(1)) = 3
    /\ EncResult.status = "ok"
    /\ Len(EncResult.value[1]) = 5

PermutationsOf(s) ==
    {[i \in 1..Len(s) |-> s[f[i]]] :
        f \in {g \in [1..Len(s) -> 1..Len(s)] : \A i, j \in 1..Len(s) : i # j => g[i] # g[j]}}

\* C7: the result of one_hot_encode is the same for every order in which the
\* same categorical indices are supplied.
C7_OrderIndependent ==
    ~IsNone(encOut) =>
        \A q \in PermutationsOf(encIdx) : one_hot_encode(encX, q, encDrop) = EncResult

\* Columns 0 and 2 of a three-column table, given in ascending order, have both
\* been expanded.
C7_Witness ==
    /\ ~IsNone(encOut)
    /\ encIdx = <<0, 2>>
    /\ EncCols = 3
    /\ Cardinality(Categories(0)) >= 2
    /\ Cardinality(Categories(2)) >= 2
    /\ ~encDrop
    /\ EncResult.status = "ok"

\* C8 (as claimed): one_hot_encode raises, and returns no table, whenever
\* categorical_indices holds an index below 0 or not below the number of
\* columns.
C8_OutOfRangeRejected ==
    (~IsNone(encOut) /\ \E i \in 1..Len(encIdx) : encIdx[i] < 0 \/ encIdx[i] >= EncCols) =>
        EncResult.status = "raise"

\* C9 (as claimed): evaluate_regression raises, and returns no record, for
\* every pair of sequences of different lengths.
C9_LengthMismatchRejected ==
    (~IsNone(evalOut) /\ Len(y_true) # Len(y_pred)) => Get(evalOut).status = "raise"

=============================================================================
